---- MODULE Spec2Model ----
(***************************************************************************)
(* Model of wlauto/utils/trace_cmd.py: the trace-cmd report parser.        *)
(*                                                                         *)
(* Text is modelled at character level: a Python str is a sequence of      *)
(* one-character strings, so the regular expressions, the `in` tests and   *)
(* the split/strip calls of the source are computed, not assumed.          *)
(***************************************************************************)
EXTENDS Integers, Sequences, FiniteSets, TLC

\* ------------------------------------------------------------------------
\* Bounds of the model
\* ------------------------------------------------------------------------

\* longest trace file, in lines
MaxLines == 3

\* longest generated body text, in tokens
MaxToks == 5

\* ------------------------------------------------------------------------
\* State
\* ------------------------------------------------------------------------

VARIABLES
    file,                  \* the lines of file_path, as indices into Lines
    filter_markers,        \* self.filter_markers
    names,                 \* self.names
    registered,            \* the cpu_idle pattern is in EVENT_PARSER_MAP
    memo,                  \* the memoized has_start_marker
    state,                 \* of the generator parse(): running, stopped (break),
                           \* exhausted (the lines ran out) or raised
    pos,                   \* lines read by parse()
    inside_marked_region,  \* local of parse()
    yielded,               \* what parse() has yielded, with the line it came from
    log,                   \* what parse() has logged, with the line it was about
    input,                 \* a body text handed to a body parser
    called,                \* the body parser called on input ("": none yet)
    parsed                 \* the outcome of the body parser on input

\* ------------------------------------------------------------------------
\* Characters and the str methods the source calls
\* ------------------------------------------------------------------------

\* the characters \s matches
Whitespace == {" ", "\t", "\n"}

\* the characters \d matches
Digit == {"0", "1", "2", "3", "4", "5", "6", "7", "8", "9"}

\* the characters [\d.] matches
DigitOrDot == Digit \cup {"."}

DigitVal == [c \in Digit |-> CASE c = "0" -> 0 [] c = "1" -> 1 [] c = "2" -> 2
                               [] c = "3" -> 3 [] c = "4" -> 4 [] c = "5" -> 5
                               [] c = "6" -> 6 [] c = "7" -> 7 [] c = "8" -> 8
                               [] c = "9" -> 9]

\* s[a..b], empty when b < a
Sub(s, a, b) == IF b < a THEN <<>> ELSE SubSeq(s, a, b)

\* the literal lit occurs in s at position i
StartsWith(s, i, lit) ==
    /\ i >= 1
    /\ i + Len(lit) - 1 <= Len(s)
    /\ \A k \in 1..Len(lit) : s[i + k - 1] = lit[k]

\* Python's `lit in s`
Contains(s, lit) == \E i \in 1..(Len(s) - Len(lit) + 1) : StartsWith(s, i, lit)

\* end of the longest run of characters of cls that starts at i (i-1: none)
RunIn(s, i, cls) ==
    IF i < 1 \/ i > Len(s) THEN i - 1
    ELSE CHOOSE j \in (i - 1)..Len(s) :
             /\ \A k \in i..j : s[k] \in cls
             /\ j < Len(s) => s[j + 1] \notin cls

\* end of the longest run of characters outside cls that starts at i
RunNotIn(s, i, cls) ==
    IF i < 1 \/ i > Len(s) THEN i - 1
    ELSE CHOOSE j \in (i - 1)..Len(s) :
             /\ \A k \in i..j : s[k] \notin cls
             /\ j < Len(s) => s[j + 1] \in cls

\* index of the last character of s outside cls (0: none)
LastNotIn(s, cls) ==
    IF \A k \in 1..Len(s) : s[k] \in cls THEN 0
    ELSE CHOOSE j \in 1..Len(s) :
             s[j] \notin cls /\ \A k \in (j + 1)..Len(s) : s[k] \in cls

\* str.strip()
strip(s) ==
    LET a == RunIn(s, 1, Whitespace) + 1
        b == LastNotIn(s, Whitespace)
    IN  IF b = 0 THEN <<>> ELSE Sub(s, a, b)

\* number of occurrences of the character c: str.count(c)
count(s, c) == Cardinality({k \in 1..Len(s) : s[k] = c})

RECURSIVE SplitFrom(_, _, _)
\* the pieces of s[i..] between the occurrences of the character c
SplitFrom(s, i, c) ==
    LET j == RunNotIn(s, i, {c})
    IN  IF j >= Len(s) THEN <<Sub(s, i, Len(s))>>
        ELSE <<Sub(s, i, j)>> \o SplitFrom(s, j + 2, c)

\* str.split(c) for a one-character separator
split(s, c) == SplitFrom(s, 1, c)

\* str.rsplit(c, 1)
rsplit1(s, c) ==
    IF \A k \in 1..Len(s) : s[k] # c THEN <<s>>
    ELSE LET i == CHOOSE k \in 1..Len(s) :
                      s[k] = c /\ \A m \in (k + 1)..Len(s) : s[m] # c
         IN  <<Sub(s, 1, i - 1), Sub(s, i + 1, Len(s))>>

RECURSIVE ReplaceFrom(_, _, _)
\* s[i..] with the non-overlapping occurrences of lit removed, left to right
ReplaceFrom(s, i, lit) ==
    LET occ == {k \in i..Len(s) : StartsWith(s, k, lit)}
        j   == CHOOSE k \in occ : \A m \in occ : k <= m
    IN  IF occ = {} THEN Sub(s, i, Len(s))
        ELSE Sub(s, i, j - 1) \o ReplaceFrom(s, j + Len(lit), lit)

\* str.replace(lit, '')
replace(s, lit) == ReplaceFrom(s, 1, lit)


RECURSIVE DigitsUpTo(_, _)
\* value of the digits s[1..n]
DigitsUpTo(s, n) ==
    IF n = 0 THEN 0 ELSE 10 * DigitsUpTo(s, n - 1) + DigitVal[s[n]]

\* value of a string of digits
DigitsToInt(s) == DigitsUpTo(s, Len(s))

\* the strings int() converts: an optional sign and digits
IsIntLiteral(s) ==
    LET d == IF Len(s) > 0 /\ s[1] \in {"+", "-"} THEN Tail(s) ELSE s
    IN  Len(d) > 0 /\ \A k \in 1..Len(d) : d[k] \in Digit

\* int(s) for s an int literal
int(s) ==
    IF s[1] = "-" THEN 0 - DigitsToInt(Tail(s))
    ELSE IF s[1] = "+" THEN DigitsToInt(Tail(s))
    ELSE DigitsToInt(s)

\* field values: Python ints and strs are kept apart
IntVal(n) == [t |-> "int", n |-> n]

StrVal(s) == [t |-> "str", s |-> s]

\* a non-negative decimal number: integer part and the digits of the
\* fraction, trailing zeros dropped (3284.5 is NumVal(3284, <<"5">>))
NumVal(ip, frac) == [t |-> "num", ip |-> ip, frac |-> frac]

\* "try: int(v) except ValueError: v"
IntOrStr(v) == IF IsIntLiteral(v) THEN IntVal(int(v)) ELSE StrVal(v)

\* dict assignment d[k] = v
Put(d, k, v) == (k :> v) @@ d

\* the empty dict
EmptyDict == <<>>

\* ------------------------------------------------------------------------
\* Regular expressions
\* ------------------------------------------------------------------------

TRACE_MARKER_START ==
    <<"T", "R", "A", "C", "E", "_", "M", "A", "R", "K", "E", "R", "_",
      "S", "T", "A", "R", "T">>

TRACE_MARKER_STOP ==
    <<"T", "R", "A", "C", "E", "_", "M", "A", "R", "K", "E", "R", "_",
      "S", "T", "O", "P">>

\* A compiled pattern is a sequence of items.  The items:
\*   Lit(chars)                 the text chars
\*   One, Plus, Star, LazyStar  a character of a class, once or repeated
\*   Open(g), Close(g)          the ends of the group (?P<g>...)
\*   Alt(ps)                    (?:p1|p2|...), the alternatives in order
\*   Bol, Eol                   ^ and $
\* A class is a set of characters, or the characters outside a set.
Lit(chars) == [k |-> "lit", lit |-> chars]

Rep(cls, neg, min, many, greedy) ==
    [k |-> "rep", cls |-> cls, neg |-> neg, min |-> min, many |-> many,
     greedy |-> greedy]

One(cls) == Rep(cls, FALSE, 1, FALSE, TRUE)

Plus(cls) == Rep(cls, FALSE, 1, TRUE, TRUE)

Star(cls) == Rep(cls, FALSE, 0, TRUE, TRUE)

OneNot(cls) == Rep(cls, TRUE, 1, FALSE, TRUE)

PlusNot(cls) == Rep(cls, TRUE, 1, TRUE, TRUE)

StarNot(cls) == Rep(cls, TRUE, 0, TRUE, TRUE)

LazyStarNot(cls) == Rep(cls, TRUE, 0, TRUE, FALSE)

Open(g) == [k |-> "open", name |-> g]

Close(g) == [k |-> "close", name |-> g]

Alt(ps) == [k |-> "alt", alts |-> ps]

Bol == [k |-> "bol"]

Eol == [k |-> "eol"]

\* the characters "." does not match
Newline == {"\n"}

\* the result of a match or search that found nothing (None)
NoMatch == [ok |-> FALSE]

\* the length of the longest run of characters of the item's class at
\* s[j..], at most one when the item is not repeated
RunLength(it, s, j) ==
    LET stop == {k \in j..Len(s) : (s[k] \in it.cls) = it.neg}
        run  == IF stop = {} THEN Len(s) + 1 - j
                ELSE (CHOOSE k \in stop : \A m \in stop : k <= m) - j
    IN  IF it.many \/ run = 0 THEN run ELSE 1

\* of the tries <<n, match>>, the successful one with the least n (or the
\* greatest, when ~least)
FirstTry(tries, least) ==
    LET good == {t \in tries : t[2].ok}
    IN  IF good = {} THEN NoMatch
        ELSE (CHOOSE t \in good :
                 \A u \in good : IF least THEN t[1] <= u[1] ELSE t[1] >= u[1])[2]

RECURSIVE re_match(_, _, _)
\* The match of the pattern p at s[j..] that the backtracking of re finds
\* first: where it ends, and where its groups start and end.
re_match(p, s, j) ==
    IF p = <<>> THEN [ok |-> TRUE, end |-> j - 1, from |-> <<>>, to |-> <<>>]
    ELSE LET it == Head(p)
             m  == re_match(Tail(p), s, j)
         IN  CASE it.k = "lit" ->
                    IF StartsWith(s, j, it.lit)
                    THEN re_match(Tail(p), s, j + Len(it.lit)) ELSE NoMatch
               [] it.k = "rep" ->
                    FirstTry({<<c, re_match(Tail(p), s, j + c)>> :
                                 c \in it.min..RunLength(it, s, j)}, ~it.greedy)
               [] it.k = "alt" ->
                    FirstTry({<<a, re_match(it.alts[a] \o Tail(p), s, j)>> :
                                 a \in 1..Len(it.alts)}, TRUE)
               [] it.k = "open" ->
                    IF m.ok THEN [m EXCEPT !.from = (it.name :> j) @@ m.from] ELSE m
               [] it.k = "close" ->
                    IF m.ok THEN [m EXCEPT !.to = (it.name :> j - 1) @@ m.to] ELSE m
               [] it.k = "bol" -> IF j = 1 THEN m ELSE NoMatch
               [] it.k = "eol" ->
                    IF j = Len(s) + 1 \/ (j = Len(s) /\ s[j] = "\n") THEN m
                    ELSE NoMatch

\* regex.search(s): the match at the leftmost position that has one
re_search(p, s) ==
    FirstTry({<<j, re_match(p, s, j)>> : j \in 1..(Len(s) + 1)}, TRUE)

\* a (key, value) item of match.groupdict(); none: the value is None
Group(k, v) == [k |-> k, v |-> v, none |-> FALSE]

NoGroup(k) == [k |-> k, v |-> <<>>, none |-> TRUE]

\* match.group(g) of the match m in s
group(m, s, g) ==
    IF g \in DOMAIN m.from THEN Group(g, Sub(s, m.from[g], m.to[g]))
    ELSE NoGroup(g)

RECURSIVE Items(_, _, _, _)
\* the first n of the groups gs of the match m in s, as groupdict() items
Items(m, s, gs, n) ==
    IF n = 0 THEN <<>> ELSE Append(Items(m, s, gs, n - 1), group(m, s, gs[n]))

\* match.groupdict().iteritems(), the groups in the order gs; None when
\* there is no match
groupdict(m, s, gs) ==
    IF m.ok THEN [ok |-> TRUE, groups |-> Items(m, s, gs, Len(gs))] ELSE NoMatch

\* ^\s+(?P<thread>\S+.*?\S+)\s+\[(?P<cpu_id>\d+)\]\s+(?P<ts>[\d.]+):\s+
\* (?P<name>[^:]+):\s+(?P<body>.*?)\s*$
TRACE_EVENT_REGEX ==
    <<Bol, Plus(Whitespace),
      Open("thread"), PlusNot(Whitespace), LazyStarNot(Newline),
      PlusNot(Whitespace), Close("thread"),
      Plus(Whitespace), Lit(<<"[">>), Open("cpu_id"), Plus(Digit), Close("cpu_id"),
      Lit(<<"]">>), Plus(Whitespace), Open("ts"), Plus(DigitOrDot), Close("ts"),
      Lit(<<":">>), Plus(Whitespace), Open("name"), PlusNot({":"}), Close("name"),
      Lit(<<":">>), Plus(Whitespace), Open("body"), LazyStarNot(Newline),
      Close("body"), Star(Whitespace), Eol>>

\* ^\s*(?:version|cpus)\s*=\s*([\d.]+)\s*$
HEADER_REGEX ==
    <<Bol, Star(Whitespace),
      Alt(<<<<Lit(<<"v", "e", "r", "s", "i", "o", "n">>)>>,
            <<Lit(<<"c", "p", "u", "s">>)>>>>),
      Star(Whitespace), Lit(<<"=">>), Star(Whitespace), Plus(DigitOrDot),
      Star(Whitespace), Eol>>

\* CPU:(?P<cpu_id>\d+) \[\d*\s*EVENTS DROPPED\]
DROPPED_EVENTS_REGEX ==
    <<Lit(<<"C", "P", "U", ":">>), Open("cpu_id"), Plus(Digit), Close("cpu_id"),
      Lit(<<" ", "[">>), Star(Digit), Star(Whitespace),
      Lit(<<"E", "V", "E", "N", "T", "S", " ", "D", "R", "O", "P", "P", "E", "D", "]">>)>>

\* CPU \d+ is empty
EMPTY_CPU_REGEX ==
    <<Lit(<<"C", "P", "U", " ">>), Plus(Digit),
      Lit(<<" ", "i", "s", " ", "e", "m", "p", "t", "y">>)>>

\* the groups of a match of TRACE_EVENT_REGEX in line: match.groupdict()
EventGroups(m, line) ==
    IF m.ok
    THEN [ok |-> TRUE,
          thread |-> group(m, line, "thread").v,
          cpu_id |-> group(m, line, "cpu_id").v,
          ts     |-> group(m, line, "ts").v,
          name   |-> group(m, line, "name").v,
          body   |-> group(m, line, "body").v]
    ELSE NoMatch

\* the cpu_id group of a match of DROPPED_EVENTS_REGEX in line
DroppedGroups(m, line) ==
    IF m.ok THEN [ok |-> TRUE, cpu_id |-> group(m, line, "cpu_id").v] ELSE NoMatch

\* ------------------------------------------------------------------------
\* Body parsers
\* ------------------------------------------------------------------------

\* a parser's outcome: the event's fields when it returned or raised, and
\* whether it raised
Outcome(fields, raised) == [fields |-> fields, raised |-> raised]

RECURSIVE StorePairs(_, _, _)
\* "for k, v in zip(i, i): ... event.fields[k] = v" over the first n pairs
\* of fragments
StorePairs(fields, parts, n) ==
    IF n = 0 THEN fields
    ELSE Put(StorePairs(fields, parts, n - 1),
             parts[2 * n - 1], IntOrStr(parts[2 * n]))

RECURSIVE RsplitAll(_, _)
\* chain.from_iterable(e.rsplit(' ', 1) for e in es), over the first n of es
RsplitAll(es, n) ==
    IF n = 0 THEN <<>> ELSE RsplitAll(es, n - 1) \o rsplit1(es[n], " ")

RECURSIVE StripAll(_, _)
\* [p.strip() for p in ps], over the first n of ps
StripAll(ps, n) ==
    IF n = 0 THEN <<>> ELSE Append(StripAll(ps, n - 1), strip(ps[n]))

\* the fragments of default_body_parser: split on '=', every fragment split
\* again at its last space, every piece stripped
Fragments(text) ==
    LET eqs  == split(strip(text), "=")
        flat == RsplitAll(eqs, Len(eqs))
    IN  StripAll(flat, Len(flat))

default_body_parser(fields, text) ==
    LET parts == Fragments(text)
    IN  IF Len(parts) % 2 = 0
        THEN Outcome(StorePairs(fields, parts, Len(parts) \div 2), FALSE)
        ELSE Outcome(fields, FALSE)

RECURSIVE StoreGroups(_, _)
\* the loop of regex_parser_func over match.groupdict().iteritems(), in the
\* order items gives: int(None) raises TypeError, which "except ValueError"
\* does not catch
StoreGroups(fields, items) ==
    IF items = <<>> THEN Outcome(fields, FALSE)
    ELSE IF items[1].none THEN Outcome(fields, TRUE)
    ELSE StoreGroups(Put(fields, items[1].k, IntOrStr(items[1].v)), Tail(items))

\* regex_parser_func for the result m of regex.search(text) (NoMatch or the
\* groups in iteration order)
regex_parser_func(fields, m) ==
    IF m.ok THEN StoreGroups(fields, m.groups) ELSE Outcome(fields, FALSE)

prev_comm == <<"p", "r", "e", "v", "_", "c", "o", "m", "m">>

prev_pid == <<"p", "r", "e", "v", "_", "p", "i", "d">>

prev_prio == <<"p", "r", "e", "v", "_", "p", "r", "i", "o">>

status == <<"s", "t", "a", "t", "u", "s">>

next_comm == <<"n", "e", "x", "t", "_", "c", "o", "m", "m">>

next_pid == <<"n", "e", "x", "t", "_", "p", "i", "d">>

next_prio == <<"n", "e", "x", "t", "_", "p", "r", "i", "o">>

\* the regex of sched_switch_parser:
\*   (?P<prev_comm>\S.*):(?P<prev_pid>\d+) \[(?P<prev_prio>\d+)\] (?P<status>\S+)
\*    ==> (?P<next_comm>\S.*):(?P<next_pid>\d+) \[(?P<next_prio>\d+)\]
SchedSwitchRegex ==
    <<Open(prev_comm), OneNot(Whitespace), StarNot(Newline), Close(prev_comm),
      Lit(<<":">>), Open(prev_pid), Plus(Digit), Close(prev_pid),
      Lit(<<" ", "[">>), Open(prev_prio), Plus(Digit), Close(prev_prio),
      Lit(<<"]", " ">>), Open(status), PlusNot(Whitespace), Close(status),
      Lit(<<" ", "=", "=", ">", " ">>),
      Open(next_comm), OneNot(Whitespace), StarNot(Newline), Close(next_comm),
      Lit(<<":">>), Open(next_pid), Plus(Digit), Close(next_pid),
      Lit(<<" ", "[">>), Open(next_prio), Plus(Digit), Close(next_prio),
      Lit(<<"]">>)>>

\* the groups of SchedSwitchRegex
SchedSwitchGroups ==
    <<prev_comm, prev_pid, prev_prio, status, next_comm, next_pid, next_prio>>

\* sched_switch_parser without the replace: the "==>" is left in the text
\* handed to the default parser
sched_switch_parser_keeps_arrow(fields, text) ==
    IF count(text, "=") = 2
    THEN regex_parser_func(fields, groupdict(re_search(SchedSwitchRegex, text),
                                             text, SchedSwitchGroups))
    ELSE default_body_parser(fields, text)

sched_switch_parser(fields, text) ==
    IF count(text, "=") = 2
    THEN regex_parser_func(fields, groupdict(re_search(SchedSwitchRegex, text),
                                             text, SchedSwitchGroups))
    ELSE default_body_parser(fields, replace(text, <<"=", "=", ">">>))

\* ------------------------------------------------------------------------
\* Events
\* ------------------------------------------------------------------------

\* Python's None
NoneVal == [t |-> "none"]

\* wlauto.utils.types.numeric on the text of a timestamp: the number it
\* writes, or the text itself when it does not write a number
numeric(s) ==
    LET dot == IF \E k \in 1..Len(s) : s[k] = "."
               THEN CHOOSE k \in 1..Len(s) :
                        s[k] = "." /\ \A m \in 1..(k - 1) : s[m] # "."
               ELSE Len(s) + 1
        last == LastNotIn(s, {"0"})
    IN  IF /\ \A k \in 1..Len(s) : s[k] \in DigitOrDot
           /\ count(s, ".") <= 1
           /\ Len(s) > count(s, ".")
        THEN NumVal(DigitsToInt(Sub(s, 1, dot - 1)), Sub(s, dot + 1, last))
        ELSE StrVal(s)

\* the pattern string 'state=(?P<state>\d+)(?: cpu_id=(?P<cpu_id>\d+))?', a
\* parser a user registers for cpu_idle
IdleRegex ==
    <<Lit(<<"s", "t", "a", "t", "e", "=">>),
      Open(<<"s", "t", "a", "t", "e">>), Plus(Digit), Close(<<"s", "t", "a", "t", "e">>),
      Alt(<<<<Lit(<<" ", "c", "p", "u", "_", "i", "d", "=">>),
              Open(<<"c", "p", "u", "_", "i", "d">>), Plus(Digit),
              Close(<<"c", "p", "u", "_", "i", "d">>)>>,
            <<>>>>)>>

\* the groups of IdleRegex in the order groupdict().iteritems() gives them
\* (order 1: state first)
IdleGroups(order) ==
    IF order = 1
    THEN <<<<"s", "t", "a", "t", "e">>, <<"c", "p", "u", "_", "i", "d">>>>
    ELSE <<<<"c", "p", "u", "_", "i", "d">>, <<"s", "t", "a", "t", "e">>>>

\* the orders in which a two-entry dict may be iterated
Orders == {1, 2}

sched_switch == <<"s", "c", "h", "e", "d", "_", "s", "w", "i", "t", "c", "h">>

cpu_idle == <<"c", "p", "u", "_", "i", "d", "l", "e">>

\* EVENT_PARSER_MAP.get(event_name, default_body_parser); registered: the
\* caller has added the cpu_idle pattern string to the map
EVENT_PARSER_MAP(reg, event_name) ==
    IF event_name = sched_switch THEN "sched_switch_parser"
    ELSE IF reg /\ event_name = cpu_idle THEN "regex_body_parser"
    ELSE "default_body_parser"

\* parser(self, self.text)
CallParser(parser, fields, text, order) ==
    CASE parser = "sched_switch_parser" -> sched_switch_parser(fields, text)
      [] parser = "regex_body_parser" -> 
             regex_parser_func(fields, groupdict(re_search(IdleRegex, text), text,
                                                 IdleGroups(order)))
      [] OTHER -> default_body_parser(fields, text)

\* the call of the parser without the try: an exception leaves __init__
TryParserPropagates(parser, fields, text, order) ==
    CallParser(parser, fields, text, order)

\* "try: parser(self, self.text) except Exception: pass": the outcome of the
\* parser with the exception discarded
TryParser(parser, fields, text, order) ==
    Outcome(CallParser(parser, fields, text, order).fields, FALSE)

\* TraceCmdEvent.__init__: the event, or raised when a header conversion
\* raises
TraceCmdEvent(thread, cpu_id, ts, name, body, parser, order) ==
    IF ~IsIntLiteral(cpu_id) THEN [raised |-> TRUE]
    ELSE LET o == TryParser(parser, EmptyDict, body, order)
         IN  IF o.raised THEN [raised |-> TRUE]
             ELSE [raised |-> FALSE,
                   cls |-> "TraceCmdEvent",
                   thread |-> StrVal(thread),
                   reporting_cpu_id |-> IntVal(int(cpu_id)),
                   timestamp |-> numeric(ts),
                   name |-> StrVal(name),
                   text |-> StrVal(body),
                   fields |-> o.fields]

DROPPED_EVENTS_DETECTED ==
    <<"D", "R", "O", "P", "P", "E", "D", " ", "E", "V", "E", "N", "T", "S", " ",
      "D", "E", "T", "E", "C", "T", "E", "D">>

\* DroppedEventsEvent.__init__
DroppedEventsEvent(cpu_id) ==
    IF ~IsIntLiteral(cpu_id) THEN [raised |-> TRUE]
    ELSE [raised |-> FALSE,
          cls |-> "DroppedEventsEvent",
          thread |-> NoneVal,
          reporting_cpu_id |-> NoneVal,
          timestamp |-> NoneVal,
          name |-> StrVal(DROPPED_EVENTS_DETECTED),
          text |-> NoneVal,
          fields |-> Put(EmptyDict, <<"c", "p", "u", "_", "i", "d">>, IntVal(int(cpu_id)))]

\* ------------------------------------------------------------------------
\* Name filters
\* ------------------------------------------------------------------------

RECURSIVE CompileFrom(_, _)
\* re.compile of the pattern text pat[i..]: literal characters, "." and a
\* following "*"
CompileFrom(pat, i) ==
    IF i > Len(pat) THEN <<>>
    ELSE LET star == i < Len(pat) /\ pat[i + 1] = "*"
             cls  == IF pat[i] = "." THEN Newline ELSE {pat[i]}
         IN  <<Rep(cls, pat[i] = ".", IF star THEN 0 ELSE 1, star, TRUE)>>
                 \o CompileFrom(pat, IF star THEN i + 2 ELSE i + 1)

\* re.compile('^{}$'.format(n)).search(event_name)
FilterSearch(n, event_name) ==
    re_search(<<Bol>> \o CompileFrom(n, 1) \o <<Eol>>, event_name).ok

\* "found" left True: the filters are not consulted
FoundAlways(ns, event_name) == TRUE

\* the "found" flag of parse(): some filter matches the event name
Found(ns, event_name) ==
    \E k \in 1..Len(ns) : FilterSearch(ns[k], event_name)

\* ------------------------------------------------------------------------
\* Trace files
\* ------------------------------------------------------------------------

\* an event line as trace-cmd report prints it
EventLine(thread, cpu_id, ts, name, body) ==
    <<" ">> \o thread \o <<" ", "[">> \o cpu_id \o <<"]", " ">> \o ts
        \o <<":", " ">> \o name \o <<":", " ">> \o body \o <<"\n">>

CpuEmptyText == <<"C", "P", "U", " ", "1", " ", "i", "s", " ", "e", "m", "p", "t", "y">>

DroppedText ==
    <<"C", "P", "U", ":", "3", " ", "[", "4", "2", " ", "E", "V", "E", "N", "T", "S",
      " ", "D", "R", "O", "P", "P", "E", "D", "]">>

\* the lines a trace file of the model is made of
Lines == <<
    \* 1: an event of a name without a registered parser
    EventLine(<<"a", "b">>, <<"0">>, <<"1", ".", "5">>, <<"e", "v">>,
              <<"k", "=", "1", " ", "c", "=", "x">>),
    \* 2: a sched_switch event in the old format, with a cpu id with a
    \* leading zero and a timestamp that is not one number
    EventLine(<<"a", "b">>, <<"0", "1">>, <<"1", ".", "2", ".", "3">>, sched_switch,
              <<"a", ":", "1", " ", "[", "9", "]", " ", "R", " ", "=", "=", ">", " ",
                "b", ":", "2", " ", "[", "8", "]">>),
    \* 3, 4: the markers, written to the trace as events
    EventLine(<<"a", "b">>, <<"0">>, <<"1", ".", "0">>, <<"m", "a", "r", "k">>,
              TRACE_MARKER_START),
    EventLine(<<"a", "b">>, <<"0">>, <<"3", ".", "0">>, <<"m", "a", "r", "k">>,
              TRACE_MARKER_STOP),
    \* 5: a header line
    <<"c", "p", "u", "s", "=", "4", "\n">>,
    \* 6: a line of no known shape
    <<"g", "a", "r", "b", "a", "g", "e", "\n">>,
    \* 7: an event whose body reads like the empty-CPU notice
    EventLine(<<"a", "b">>, <<"0">>, <<"1", ".", "5">>, <<"e", "v">>, CpuEmptyText),
    \* 8: a dropped-events notice
    DroppedText \o <<"\n">>,
    \* 9: a cpu_idle event of a thread with a space in its name
    EventLine(<<"a", " ", "b">>, <<"2">>, <<"4", ".", "2", "5">>, cpu_idle,
              <<"s", "t", "a", "t", "e", "=", "1">>)
>>

\* the trace files of the model: at most MaxLines lines
Files == UNION {[1..n -> 1..Len(Lines)] : n \in 0..MaxLines}

\* the event-name filters of the model: none, or the pattern sched_.*
NameFilters == {<<>>, <<<<"s", "c", "h", "e", "d", "_", ".", "*">>>>}

\* ------------------------------------------------------------------------
\* TraceCmdTrace
\* ------------------------------------------------------------------------

vars == <<file, filter_markers, names, registered, memo, state, pos,
          inside_marked_region, yielded, log, input, called, parsed>>

traceVars == <<file, filter_markers, names, registered, memo, state, pos,
               inside_marked_region, yielded, log>>

bodyVars == <<input, called, parsed>>

\* TRACE_MARKER_START in line
HasStart(line) == Contains(line, TRACE_MARKER_START)

\* TRACE_MARKER_STOP in line
HasStop(line) == Contains(line, TRACE_MARKER_STOP)

\* "body_parser = EVENT_PARSER_MAP.get(event_name, default_body_parser)" and
\* "TraceCmdEvent(parser=body_parser, **match.groupdict())" for a match m of
\* TRACE_EVENT_REGEX
NewEvent(m, reg, order) ==
    TraceCmdEvent(m.thread, m.cpu_id, m.ts, m.name, m.body,
                  EVENT_PARSER_MAP(reg, m.name), order)

\* what the tests and searches of parse() give on a line with the match m of
\* TRACE_EVENT_REGEX, and the event it makes for each state of
\* EVENT_PARSER_MAP and each iteration order
ScanOf(line, m) ==
    [start   |-> HasStart(line),
     stop    |-> HasStop(line),
     dropped |-> DroppedGroups(re_search(DROPPED_EVENTS_REGEX, line), line),
     header  |-> re_search(HEADER_REGEX, line).ok,
     empty   |-> re_search(EMPTY_CPU_REGEX, line).ok,
     event   |-> m,
     new     |-> IF m.ok
                 THEN <<<<NewEvent(m, FALSE, 1), NewEvent(m, FALSE, 2)>>,
                        <<NewEvent(m, TRUE, 1), NewEvent(m, TRUE, 2)>>>>
                 ELSE <<>>]

\* ScanOf with "match = TRACE_EVENT_REGEX.search(line)"
Scan(line) ==
    CHOOSE scan \in {ScanOf(l, EventGroups(m, l)) :
                        l \in {line}, m \in {re_search(TRACE_EVENT_REGEX, line)}} : TRUE

\* the event a scanned line makes
EventOf(line, reg, order) == line.new[IF reg THEN 2 ELSE 1][order]

RECURSIVE ScanUpTo(_)
\* Scan of the first n lines of the model
ScanUpTo(n) ==
    IF n = 0 THEN <<>> ELSE Append(ScanUpTo(n - 1), Scan(Lines[n]))

\* Scan of every line of the model, computed once
Scanned == ScanUpTo(Len(Lines))

\* the k-th line of the file, scanned
LineOf(f, k) == Scanned[f[k]]

\* the loop of has_start_marker over the lines of the file
has_start_marker(f) == \E k \in 1..Len(f) : HasStart(Lines[f[k]])

\* the branches with the stop marker tested before the region: a stop
\* marker ends the stream wherever it stands
BranchStopFirst(line, fm, inside, ns) ==
    IF fm /\ line.stop THEN "stop"
    ELSE IF fm /\ ~inside THEN "outside"
    ELSE IF line.dropped.ok THEN "dropped"
    ELSE IF line.header \/ line.empty THEN "info"
    ELSE IF ~line.event.ok THEN "invalid"
    ELSE IF ns # <<>> /\ ~Found(ns, line.event.name) THEN "filtered"
    ELSE "event"

\* the branch of the loop body of parse() that a line takes
Branch(line, fm, inside, ns) ==
    IF fm /\ ~inside THEN "outside"
    ELSE IF fm /\ line.stop THEN "stop"
    ELSE IF line.dropped.ok THEN "dropped"
    ELSE IF line.header \/ line.empty THEN "info"
    ELSE IF ~line.event.ok THEN "invalid"
    ELSE IF ns # <<>> /\ ~Found(ns, line.event.name) THEN "filtered"
    ELSE "event"

\* the test of the for-else without inside_marked_region
WarnWheneverFiltering(fm, inside) == fm

\* "if self.filter_markers and inside_marked_region" of the for-else
WarnNoStop(fm, inside) == fm /\ inside

Init ==
    /\ file \in Files
    /\ filter_markers \in BOOLEAN
    /\ names \in NameFilters
    /\ registered \in BOOLEAN
    /\ memo = [set |-> FALSE, val |-> FALSE]
    /\ state = "running"
    /\ pos = 0
    /\ inside_marked_region = FALSE
    /\ yielded = <<>>
    /\ log = <<>>
    /\ input = <<>>
    /\ called = ""
    /\ parsed = Outcome(EmptyDict, FALSE)

\* "for line in fh": the line parse() reads next, if it reads one
Next_line ==
    IF state = "running" /\ pos < Len(file) THEN {LineOf(file, pos + 1)} ELSE {}

\* the line is read and takes the given branch of the loop body
Reading(line, branch) ==
    /\ Branch(line, filter_markers, inside_marked_region, names) = branch
    /\ pos' = pos + 1

\* has_start_marker, first call: the file is scanned and the answer kept
HasStartMarker ==
    /\ ~memo.set
    /\ memo' = [set |-> TRUE, val |-> has_start_marker(file)]
    /\ UNCHANGED <<file, filter_markers, names, registered, state, pos,
                   inside_marked_region, yielded, log, input, called, parsed>>

\* a line outside the marked region: skipped; a start marker opens the region
SkipOutside(line) ==
    /\ Reading(line, "outside")
    /\ inside_marked_region' = line.start
    /\ UNCHANGED <<file, filter_markers, names, registered, memo, state,
                   yielded, log, input, called, parsed>>

\* the stop marker inside the region with continue for break: the line is
\* skipped and the loop goes on
StopAtMarkerContinues(line) ==
    /\ Reading(line, "stop")
    /\ UNCHANGED <<file, filter_markers, names, registered, memo, state,
                   inside_marked_region, yielded, log, input, called, parsed>>

\* the stop marker inside the region: break
StopAtMarker(line) ==
    /\ Reading(line, "stop")
    /\ state' = "stopped"
    /\ UNCHANGED <<file, filter_markers, names, registered, memo,
                   inside_marked_region, yielded, log, input, called, parsed>>

\* a dropped-events notice: a DroppedEventsEvent is yielded
YieldDropped(line) ==
    /\ Reading(line, "dropped")
    /\ \E ev \in {DroppedEventsEvent(line.dropped.cpu_id)} :
         IF ev.raised
         THEN state' = "raised" /\ yielded' = yielded
         ELSE state' = state
              /\ yielded' = Append(yielded, [line |-> pos + 1, event |-> ev])
    /\ UNCHANGED <<file, filter_markers, names, registered, memo,
                   inside_marked_region, log, input, called, parsed>>

\* a header or an empty-CPU notice: logged at debug level
SkipInformational(line) ==
    /\ Reading(line, "info")
    /\ log' = Append(log, [level |-> "debug", what |-> "line", line |-> pos + 1])
    /\ UNCHANGED <<file, filter_markers, names, registered, memo, state,
                   inside_marked_region, yielded, input, called, parsed>>

\* a line that is no event, with raise for the warning
SkipInvalidRaises(line) ==
    /\ Reading(line, "invalid")
    /\ state' = "raised"
    /\ UNCHANGED <<file, filter_markers, names, registered, memo,
                   inside_marked_region, yielded, log, input, called, parsed>>

\* a line that is no event: a warning
SkipInvalid(line) ==
    /\ Reading(line, "invalid")
    /\ log' = Append(log, [level |-> "warning", what |-> "invalid", line |-> pos + 1])
    /\ UNCHANGED <<file, filter_markers, names, registered, memo, state,
                   inside_marked_region, yielded, input, called, parsed>>

\* an event whose name no filter matches
SkipFiltered(line) ==
    /\ Reading(line, "filtered")
    /\ UNCHANGED <<file, filter_markers, names, registered, memo, state,
                   inside_marked_region, yielded, log, input, called, parsed>>

\* an event: its body parser is looked up, the TraceCmdEvent built and yielded
YieldEvent(line) ==
    /\ Reading(line, "event")
    /\ \E order \in Orders :
         \E ev \in {EventOf(line, registered, order)} :
           IF ev.raised
           THEN state' = "raised" /\ yielded' = yielded
           ELSE state' = state
                /\ yielded' = Append(yielded, [line |-> pos + 1, event |-> ev])
    /\ UNCHANGED <<file, filter_markers, names, registered, memo,
                   inside_marked_region, log, input, called, parsed>>

\* the lines ran out: the else of the for loop
EndOfInput ==
    /\ state = "running"
    /\ pos = Len(file)
    /\ state' = "exhausted"
    /\ log' = IF WarnNoStop(filter_markers, inside_marked_region)
              THEN Append(log, [level |-> "warning", what |-> "no stop marker",
                                line |-> pos])
              ELSE log
    /\ UNCHANGED <<file, filter_markers, names, registered, memo, pos,
                   inside_marked_region, yielded, input, called, parsed>>

Next ==
    \/ HasStartMarker
    \/ \E line \in Next_line :
         \/ SkipOutside(line)
         \/ StopAtMarker(line)
         \/ YieldDropped(line)
         \/ SkipInformational(line)
         \/ SkipInvalid(line)
         \/ SkipFiltered(line)
         \/ YieldEvent(line)
    \/ EndOfInput

Spec == Init /\ [][Next]_vars

\* ------------------------------------------------------------------------
\* The body parsers on their own
\* ------------------------------------------------------------------------

\* the pieces generated body texts are made of
Toks == {<<"k">>, <<"x">>, <<"=">>, <<" ">>, <<"1">>}

RECURSIVE TokenBodies(_)
\* the texts of at most n pieces
TokenBodies(n) ==
    IF n = 0 THEN {<<>>}
    ELSE TokenBodies(n - 1) \cup {b \o t : b \in TokenBodies(n - 1), t \in Toks}

\* the body of the event in the docstring of TraceCmdEvent, "cpu=0 load=54",
\* and bodies with a space in the first key and in the last value
ExampleBodies ==
    {<<"c", "p", "u", "=", "0", " ", "l", "o", "a", "d", "=", "5", "4">>,
     <<"m", "y", " ", "c", "p", "u", "=", "0", " ", "l", "o", "a", "d", "=", "5", "4">>,
     <<"c", "p", "u", "=", "0", " ", "l", "o", "a", "d", "=", "5", "4", " ", "%">>}

\* what the parts of a sched_switch body are drawn from
Comms == {<<"a">>, <<"b", " ", "c">>}

Pids == {<<"1">>, <<"0", "2">>}

Prios == {<<"9">>, <<"1", "2", "0">>}

Statuses == {<<"R">>, <<"D", "+">>}

prev_state == <<"p", "r", "e", "v", "_", "s", "t", "a", "t", "e">>

\* a sched_switch body in the old format: "a:1 [9] R ==> b:2 [8]"
OldFormat(pc, pp, pr, st, nc, np, nr) ==
    pc \o <<":">> \o pp \o <<" ", "[">> \o pr \o <<"]", " ">> \o st
       \o <<" ", "=", "=", ">", " ">>
       \o nc \o <<":">> \o np \o <<" ", "[">> \o nr \o <<"]">>

\* a sched_switch body in the new format: "prev_comm=a prev_pid=1
\* prev_prio=9 prev_state=R ==> next_comm=b next_pid=2 next_prio=8"
NewFormat(pc, pp, pr, st, nc, np, nr) ==
    prev_comm \o <<"=">> \o pc \o <<" ">> \o prev_pid \o <<"=">> \o pp
       \o <<" ">> \o prev_prio \o <<"=">> \o pr
       \o <<" ">> \o prev_state \o <<"=">> \o st
       \o <<" ", "=", "=", ">", " ">>
       \o next_comm \o <<"=">> \o nc \o <<" ">> \o next_pid \o <<"=">> \o np
       \o <<" ">> \o next_prio \o <<"=">> \o nr

\* the sched_switch bodies of the model, in both formats; the next task has
\* the priority of the previous one
SchedBodies ==
    {OldFormat(pc, pp, pr, st, nc, np, pr) :
        pc \in Comms, pp \in Pids, pr \in Prios, st \in Statuses,
        nc \in Comms, np \in Pids}
    \cup
    {NewFormat(pc, pp, pr, st, nc, np, pr) :
        pc \in Comms, pp \in Pids, pr \in Prios, st \in Statuses,
        nc \in Comms, np \in Pids}

\* the body texts of the model
Bodies == TokenBodies(MaxToks) \cup ExampleBodies \cup SchedBodies

InitBody ==
    /\ input \in Bodies
    /\ called = ""
    /\ parsed = Outcome(EmptyDict, FALSE)
    /\ file = <<>>
    /\ filter_markers = FALSE
    /\ names = <<>>
    /\ registered = FALSE
    /\ memo = [set |-> FALSE, val |-> FALSE]
    /\ state = "running"
    /\ pos = 0
    /\ inside_marked_region = FALSE
    /\ yielded = <<>>
    /\ log = <<>>

\* default_body_parser(event, text) on an event without fields
CallDefaultBodyParser ==
    /\ called = ""
    /\ called' = "default_body_parser"
    /\ \E o \in {default_body_parser(EmptyDict, input)} : parsed' = o
    /\ UNCHANGED <<input, traceVars>>

\* sched_switch_parser(event, text) on an event without fields
CallSchedSwitchParser ==
    /\ called = ""
    /\ called' = "sched_switch_parser"
    /\ \E o \in {sched_switch_parser(EmptyDict, input)} : parsed' = o
    /\ UNCHANGED <<input, traceVars>>

NextBody ==
    \/ CallDefaultBodyParser
    \/ CallSchedSwitchParser

SpecBody == InitBody /\ [][NextBody]_vars

\* ------------------------------------------------------------------------
\* Properties of parse()
\* ------------------------------------------------------------------------

\* the lines of the model a marker occurs in, found by searching the text
StartLines == {i \in 1..Len(Lines) : Contains(Lines[i], TRACE_MARKER_START)}

StopLines == {i \in 1..Len(Lines) : Contains(Lines[i], TRACE_MARKER_STOP)}

\* the lines of the model each pattern is found in
DroppedLines == {i \in 1..Len(Lines) : re_search(DROPPED_EVENTS_REGEX, Lines[i]).ok}

InfoLines ==
    {i \in 1..Len(Lines) : \/ re_search(HEADER_REGEX, Lines[i]).ok
                           \/ re_search(EMPTY_CPU_REGEX, Lines[i]).ok}

EventLines == {i \in 1..Len(Lines) : re_search(TRACE_EVENT_REGEX, Lines[i]).ok}

\* lines of no known shape, and event lines that read like no notice
InvalidLines == (1..Len(Lines)) \ (EventLines \cup DroppedLines \cup InfoLines)

WellFormedLines == EventLines \ (DroppedLines \cup InfoLines)

\* the groups of the event pattern in a line of the model
GroupsOf(i) == Scanned[i].event

\* the first line of the file with a start marker (Len(file) + 1: none)
FirstStart ==
    LET s == {k \in 1..Len(file) : file[k] \in StartLines}
    IN  IF s = {} THEN Len(file) + 1 ELSE CHOOSE k \in s : \A m \in s : k <= m

\* the first line after FirstStart with a stop marker (Len(file) + 1: none)
FirstStop ==
    LET s == {k \in (FirstStart + 1)..Len(file) : file[k] \in StopLines}
    IN  IF s = {} THEN Len(file) + 1 ELSE CHOOSE k \in s : \A m \in s : k <= m

\* line k lies where lines are classified: anywhere without marker
\* filtering, else strictly between the first start marker and the stop
\* marker that follows it
InRegion(k) == ~filter_markers \/ (FirstStart < k /\ k < FirstStop)

\* the places in yielded of what line k yielded
YieldedFrom(k) == {i \in DOMAIN yielded : yielded[i].line = k}

\* the warning of the for-else has been logged
Warned == \E i \in DOMAIN log : log[i].what = "no stop marker"

\* one of the filters in names matches the whole name
Matches(name) == \E k \in 1..Len(names) : FilterSearch(names[k], name)

\* C1: with marker filtering, whatever is yielded comes from a line after
\* the first start-marker line and before the first stop-marker line after
\* it; parse() reads no line beyond that stop line, which ends the stream
\* the moment it is read, whatever follows it.
C1_MarkedRegion ==
    filter_markers =>
        /\ \A i \in DOMAIN yielded :
              FirstStart < yielded[i].line /\ yielded[i].line < FirstStop
        /\ pos <= FirstStop
        /\ (pos = FirstStop) = (state = "stopped")

\* the stream has ended at a stop marker with a start marker next
C1_Witness ==
    /\ filter_markers
    /\ state = "stopped"
    /\ pos < Len(file)
    /\ file[pos + 1] \in StartLines

\* C2, as stated: with a name filter, the name of everything yielded
\* matches one of the filters.
C2_EveryYieldedNameMatches ==
    names # <<>> =>
        \A i \in DOMAIN yielded : Matches(yielded[i].event.name.s)

\* C2, amended: with a name filter, the name of every TraceCmdEvent yielded
\* matches one of the filters; a line with a dropped-events notice yields
\* its DroppedEventsEvent all the same.
C2_EveryTraceCmdEventNameMatches ==
    names # <<>> =>
        /\ \A i \in DOMAIN yielded :
              yielded[i].event.cls = "TraceCmdEvent"
                  => Matches(yielded[i].event.name.s)
        /\ \A k \in 1..pos :
              InRegion(k) /\ file[k] \in DroppedLines
                  => \E i \in YieldedFrom(k) :
                        yielded[i].event.cls = "DroppedEventsEvent"

\* with a filter: an event yielded, an event filtered out, and a
\* DroppedEventsEvent yielded
C2_Witness ==
    /\ names # <<>>
    /\ \E i \in DOMAIN yielded : yielded[i].event.cls = "TraceCmdEvent"
    /\ \E i \in DOMAIN yielded : yielded[i].event.cls = "DroppedEventsEvent"
    /\ \E k \in 1..pos :
          InRegion(k) /\ file[k] \in WellFormedLines /\ YieldedFrom(k) = {}

\* C3: without marker filtering and without name filter, every line read
\* that matches the event pattern has yielded exactly one TraceCmdEvent,
\* with the thread, cpu id (an integer), timestamp and name of the groups.
C3_EveryEventLineYields ==
    (~filter_markers /\ names = <<>>) =>
        \A k \in 1..pos :
            file[k] \in EventLines =>
                /\ Cardinality(YieldedFrom(k)) = 1
                /\ \A i \in YieldedFrom(k) :
                      /\ yielded[i].event.cls = "TraceCmdEvent"
                      /\ yielded[i].event.thread = StrVal(GroupsOf(file[k]).thread)
                      /\ yielded[i].event.reporting_cpu_id
                             = IntVal(int(GroupsOf(file[k]).cpu_id))
                      /\ yielded[i].event.timestamp = numeric(GroupsOf(file[k]).ts)
                      /\ yielded[i].event.name = StrVal(GroupsOf(file[k]).name)

IdleLines == {i \in EventLines : GroupsOf(i).name = cpu_idle}

\* the field state=1
StateOne == Put(EmptyDict, <<"s", "t", "a", "t", "e">>, IntVal(1))

\* C5: with the cpu_idle pattern registered, whose parser raises on the
\* unset group, parse() does not raise; each classified cpu_idle line has
\* yielded its event with the header attributes set and with the fields
\* stored before the parser raised: state when it came first, else none.
C5_ParserErrorDiscarded ==
    /\ state # "raised"
    /\ (registered /\ names = <<>>) =>
          \A k \in 1..pos :
              InRegion(k) /\ file[k] \in IdleLines =>
                  /\ Cardinality(YieldedFrom(k)) = 1
                  /\ \A i \in YieldedFrom(k) :
                        /\ yielded[i].event.cls = "TraceCmdEvent"
                        /\ yielded[i].event.thread = StrVal(<<"a", " ", "b">>)
                        /\ yielded[i].event.reporting_cpu_id = IntVal(2)
                        /\ yielded[i].event.timestamp = NumVal(4, <<"2", "5">>)
                        /\ yielded[i].event.name = StrVal(cpu_idle)
                        /\ yielded[i].event.text
                               = StrVal(<<"s", "t", "a", "t", "e", "=", "1">>)
                        /\ yielded[i].event.fields \in {EmptyDict, StateOne}

\* the parser raised after it stored state, the event was yielded, and so
\* was an event of a later line
C5_Witness ==
    /\ registered
    /\ \E i \in DOMAIN yielded :
          /\ i < Len(yielded)
          /\ file[yielded[i].line] \in IdleLines
          /\ yielded[i].event.fields = StateOne

\* a start marker and a stop marker among the lines read
StartSeen == \E k \in 1..pos : file[k] \in StartLines

StopSeen == \E k \in 1..pos : file[k] \in StopLines

\* the file opens a region and does not close it
RegionLeftOpen ==
    filter_markers /\ FirstStart <= Len(file) /\ FirstStop > Len(file)

\* C6, as stated: the warning is logged exactly when the input has run out
\* with marker filtering on, a start marker seen and no stop marker seen.
C6_WarnedIffNoStopSeen ==
    /\ state = "exhausted" => (Warned <=> (filter_markers /\ StartSeen /\ ~StopSeen))
    /\ state # "exhausted" => ~Warned

\* C6, amended: the warning is logged exactly when the input has run out
\* with marker filtering on, a start marker seen and no stop marker on any
\* line after the first start-marker line; logging it leaves what was
\* yielded as it is.
C6_WarnedIffRegionLeftOpen ==
    [][/\ state' = "exhausted" => (Warned' <=> RegionLeftOpen')
       /\ state' # "exhausted" => ~Warned'
       /\ (Warned' /\ ~Warned) => yielded' = yielded]_vars

\* the warning was logged, after events were yielded, on a file with a
\* stop marker before its start marker
C6_Witness ==
    /\ Warned
    /\ yielded # <<>>
    /\ \E k \in 1..(FirstStart - 1) : file[k] \in StopLines

\* C9: with marker filtering, nothing yielded comes from a line with a
\* start marker or a stop marker.
C9_NoMarkerLineYields ==
    filter_markers =>
        \A i \in DOMAIN yielded :
            file[yielded[i].line] \notin (StartLines \cup StopLines)

\* C10: has_start_marker answers whether a line has the start marker; with
\* marker filtering and no such line, parse() yields nothing, does not stop
\* at a stop marker, does not raise, runs out only after the last line and
\* logs no warning of a missing stop marker.
C10_NothingWithoutStart ==
    /\ memo.set => (memo.val <=> FirstStart <= Len(file))
    /\ (filter_markers /\ FirstStart > Len(file)) =>
          /\ yielded = <<>>
          /\ ~Warned
          /\ state \in {"running", "exhausted"}
          /\ state = "exhausted" => pos = Len(file)

\* has_start_marker said no, and parse() ran through a file with a stop
\* marker and a dropped-events notice
C10_Witness ==
    /\ filter_markers
    /\ memo.set
    /\ ~memo.val
    /\ state = "exhausted"
    /\ \E k \in 1..Len(file) : file[k] \in StopLines
    /\ \E k \in 1..Len(file) : file[k] \in DroppedLines

\* ------------------------------------------------------------------------
\* Properties of the body parsers
\* ------------------------------------------------------------------------

\* the fragments when only the interior pieces between the "=" are split
\* at their last space
InteriorFragments(text) ==
    LET eqs == split(strip(text), "=")
        n   == Len(eqs)
        mid == Sub(eqs, 2, n - 1)
        all == IF n < 2 THEN eqs
               ELSE <<eqs[1]>> \o RsplitAll(mid, Len(mid)) \o <<eqs[n]>>
    IN  StripAll(all, Len(all))

\* the fields these fragments give
InteriorFields(text) ==
    LET parts == InteriorFragments(text)
    IN  IF Len(parts) % 2 = 0
        THEN StorePairs(EmptyDict, parts, Len(parts) \div 2)
        ELSE EmptyDict

\* C7: default_body_parser returns, and the fields it leaves are those of
\* the fragments with only the interior pieces split at their last space:
\* stored pairwise when their number is even, none otherwise.
C7_OnlyInteriorSplit ==
    called = "default_body_parser" =>
        parsed = Outcome(InteriorFields(input), FALSE)

\* the fields of a sched_switch body in the old format
OldFields(pc, pp, pr, st, nc, np, nr) ==
    (prev_comm :> StrVal(pc)) @@ (prev_pid :> IntVal(int(pp)))
        @@ (prev_prio :> IntVal(int(pr))) @@ (status :> StrVal(st))
        @@ (next_comm :> StrVal(nc)) @@ (next_pid :> IntVal(int(np)))
        @@ (next_prio :> IntVal(int(nr)))

\* the fields of a sched_switch body in the new format
NewFields(pc, pp, pr, st, nc, np, nr) ==
    (prev_comm :> StrVal(pc)) @@ (prev_pid :> IntVal(int(pp)))
        @@ (prev_prio :> IntVal(int(pr))) @@ (prev_state :> StrVal(st))
        @@ (next_comm :> StrVal(nc)) @@ (next_pid :> IntVal(int(np)))
        @@ (next_prio :> IntVal(int(nr)))

\* C8: sched_switch_parser returns; on a body in the old format, which has
\* two "=", it sets the seven fields of the old format, pids and
\* priorities as integers; on a body in the new format, which has more, it
\* sets the key=value pairs on both sides of the arrow.
C8_BothFormats ==
    called = "sched_switch_parser" =>
        /\ ~parsed.raised
        /\ \A pc \in Comms, pp \in Pids, pr \in Prios, st \in Statuses,
              nc \in Comms, np \in Pids :
              /\ input = OldFormat(pc, pp, pr, st, nc, np, pr) =>
                    /\ count(input, "=") = 2
                    /\ parsed.fields = OldFields(pc, pp, pr, st, nc, np, pr)
              /\ input = NewFormat(pc, pp, pr, st, nc, np, pr) =>
                    /\ count(input, "=") > 2
                    /\ parsed.fields = NewFields(pc, pp, pr, st, nc, np, pr)

\* sched_switch_parser has parsed a body in the new format, with a space in
\* a task name
C8_Witness ==
    /\ called = "sched_switch_parser"
    /\ input = NewFormat(<<"b", " ", "c">>, <<"0", "2">>, <<"1", "2", "0">>,
                         <<"D", "+">>, <<"a">>, <<"1">>, <<"1", "2", "0">>)
    /\ parsed.fields # EmptyDict

====
